---- MODULE Spec2Model ----
(***************************************************************************)
(* Model of the retrieval engine of the RAG pipeline: the VectorStore of   *)
(* services/vector_store.py (in-memory parallel arrays `embeddings` and    *)
(* `metadata`, the two persisted artifacts embeddings.pkl / metadata.json) *)
(* and the operations add_documents, delete_document, search, get_stats,  *)
(* get_document_chunks and the constructor that reloads the artifacts;     *)
(* the DocumentProcessor of services/document_processor.py (text cleaning, *)
(* sentence splitting, chunking); and the HTTP handlers of app.py as       *)
(* coroutines on one event loop.                                           *)
(***************************************************************************)
EXTENDS Integers, Sequences, FiniteSets, TLC

VARIABLES
    embeddings,   \* self.embeddings : sequence of vectors
    metadata,     \* self.metadata   : sequence of metadata entries (dicts)
    files,        \* the two artifacts on disk: files.emb, files.meta
    ret,          \* the last call: operation, arguments, outcome, return value
    faults,       \* number of injected failures so far (disk, embedding model, malformed chunk)
    flushed,      \* history: the in-memory store as of the last successful flush (or load)
    deleted,      \* history: documents whose delete_document returned and that were not added since
    ck,           \* DocumentProcessor: one process_document call, its position and locals
    hs,           \* the HTTP requests: kind, position in the handler, locals
    running,      \* the request that holds the event loop (0: none)
    made,         \* the _create_chunk_dict calls made so far: arguments and the id built
    cfg,          \* config.py: the process environment, the Config class attributes, the last validate_config call
    db            \* the rows of the `documents` table of the SQLite database

vars ==
    <<embeddings, metadata, files, ret, faults, flushed, deleted, ck, hs, running, made, cfg,
      db>>

(***************************************************************************)
(* Bounds of the model.                                                    *)
(***************************************************************************)
MaxRecords == 3       \* add_documents is not explored beyond this many vectors
MaxChunks == 2        \* chunks per add_documents call
MaxFaults == 1        \* injected failures (disk, embedding model, malformed chunk) per run
MaxTextLen == 5       \* tokens of an input text of the document processor
MaxChunkSize == 3     \* Config.CHUNK_SIZE ranges over 1..MaxChunkSize
MaxOverlap == 2       \* Config.CHUNK_OVERLAP ranges over 0..MaxOverlap
MaxRequests == 2      \* HTTP requests in flight together

DocIds == {"d1", "d2"}
Queries == {"x", "yx"}
TopKs == {-1, 1, 2}
Filename == "f.txt"
Now == "t0"

(***************************************************************************)
(* Config (config.py).  SIMILARITY_THRESHOLD = 0.7 is kept as the exact    *)
(* rational ThresholdNum / ThresholdDen.                                   *)
(***************************************************************************)
ThresholdNum == 7
ThresholdDen == 10

(***************************************************************************)
(* Generic helpers.                                                        *)
(***************************************************************************)
Min(a, b) == IF a <= b THEN a ELSE b
Max(a, b) == IF a >= b THEN a ELSE b

\* Python `del lst[idx]` for a 0-based idx that is in range.
DelAt(s, idx) == [j \in 1..(Len(s) - 1) |-> IF j <= idx THEN s[j] ELSE s[j + 1]]

\* Python lst[:k] for an integer k (negative k counts from the end).
Slice(s, k) ==
    IF k >= 0 THEN SubSeq(s, 1, Min(k, Len(s)))
    ELSE SubSeq(s, 1, Max(Len(s) + k, 0))

(***************************************************************************)
(* The embedding function (SentenceTransformer.encode): an external,       *)
(* deterministic map from a text to a vector of fixed dimension.  The      *)
(* vectors used here have integer norms (5 or 0), so cosine similarity is  *)
(* an exact rational.                                                      *)
(***************************************************************************)
Encode(text) ==
    CASE text = "x"  -> <<5, 0>>
      [] text = "xy" -> <<4, 3>>
      [] text = "yx" -> <<3, 4>>
      [] OTHER       -> <<0, 0>>

Dot(a, b) == a[1] * b[1] + a[2] * b[2]
Norm(a) == CHOOSE n \in 0..10 : n * n = Dot(a, a)

\* _cosine_similarity: 0.0 when a norm is zero, else dot / (norm1 * norm2).
\* The float is represented as the rational <<numerator, denominator>>,
\* denominator > 0.
CosineSimilarity(vec1, vec2) ==
    IF Norm(vec1) = 0 \/ Norm(vec2) = 0 THEN <<0, 1>>
    ELSE <<Dot(vec1, vec2), Norm(vec1) * Norm(vec2)>>

\* Comparisons of two such rationals.
ScoreGeq(s, t) == s[1] * t[2] >= t[1] * s[2]
ScoreEq(s, t) == s[1] * t[2] = t[1] * s[2]
ScoreGt(s, t) == s[1] * t[2] > t[1] * s[2]
Threshold == <<ThresholdNum, ThresholdDen>>

(***************************************************************************)
(* Chunk dicts (document_processor.py, _create_chunk_dict) and the         *)
(* malformed variants (a dict that lacks a key).                           *)
(***************************************************************************)
\* _create_chunk_dict with the separator of the id left out.
CreateChunkDictNoSeparator(content, document_id, filename, chunk_index) ==
    [id          |-> document_id \o ToString(chunk_index),
     content     |-> content,
     document_id |-> document_id,
     filename    |-> filename,
     chunk_index |-> chunk_index,
     length      |-> Len(content),
     created_at  |-> Now]

CreateChunkDict(content, document_id, filename, chunk_index) ==
    [id          |-> document_id \o "_" \o ToString(chunk_index),
     content     |-> content,
     document_id |-> document_id,
     filename    |-> filename,
     chunk_index |-> chunk_index,
     length      |-> Len(content),
     created_at  |-> Now]

Without(dict, key) == [k \in (DOMAIN dict) \ {key} |-> dict[k]]

\* The text of chunk i (0-based) of each of the two documents of the model.
DocText(document_id, i) ==
    IF document_id = "d1"
    THEN (IF i % 2 = 0 THEN "x" ELSE "xy")
    ELSE (IF i % 2 = 0 THEN "xy" ELSE "x")

\* The chunk dicts a caller may hand to add_documents at position i (0-based):
\* the one the document processor builds, or one that lacks a key.
ChunkDicts(document_id, i) ==
    LET good == CreateChunkDict(DocText(document_id, i), document_id, Filename, i)
    IN  {good, Without(good, "filename"), Without(good, "content")}

RECURSIVE ChunkListsOfLen(_, _)
ChunkListsOfLen(document_id, n) ==
    IF n = 0 THEN {<<>>}
    ELSE {Append(l, ch) : l \in ChunkListsOfLen(document_id, n - 1),
                          ch \in ChunkDicts(document_id, n - 1)}

ChunkLists(document_id) ==
    UNION {ChunkListsOfLen(document_id, n) : n \in 0..MaxChunks}

(***************************************************************************)
(* The persisted artifacts.  A file is missing, unreadable (truncated or   *)
(* partly written), or holds what pickle.dump / json.dump wrote.           *)
(***************************************************************************)
Missing == [kind |-> "missing"]
Corrupt == [kind |-> "corrupt"]

\* pickle.dump / pickle.load of the list of vectors.
PickleDump(embs) == [kind |-> "pickle", len |-> Len(embs), items |-> embs]
PickleLoad(f) == [i \in 1..f.len |-> f.items[i]]

\* json.dump / json.load of the list of metadata dicts: a JSON array of
\* objects, each object the (key, value) pairs of the dict in insertion
\* order.
MetadataKeys ==
    <<"chunk_id", "document_id", "filename", "chunk_index", "content",
      "length", "created_at", "embedding_index">>

JsonObject(entry) ==
    [j \in 1..Len(MetadataKeys) |-> <<MetadataKeys[j], entry[MetadataKeys[j]]>>]
JsonDump(md) == [kind |-> "json", text |-> [i \in 1..Len(md) |-> JsonObject(md[i])]]

JsonParseObject(obj) ==
    [k \in {obj[j][1] : j \in 1..Len(obj)} |->
        obj[CHOOSE j \in 1..Len(obj) : obj[j][1] = k][2]]
JsonLoad(f) == [i \in 1..Len(f.text) |-> JsonParseObject(f.text[i])]

(***************************************************************************)
(* _save_data.  `mode` says where the flush fails, if it does:             *)
(*   "ok"             both files written;                                  *)
(*   "fail_before"    os.makedirs or open(embeddings_file) raises;         *)
(*   "fail_pickle"    pickle.dump raises after the file was truncated;     *)
(*   "fail_open_meta" open(metadata_file) raises, embeddings.pkl written;  *)
(*   "fail_json"      json.dump raises after metadata.json was truncated.  *)
(* Every failure is re-raised.                                             *)
(***************************************************************************)
SaveModes == {"ok", "fail_before", "fail_pickle", "fail_open_meta", "fail_json"}

SaveData(embs, md, fs, mode) ==
    CASE mode = "ok" ->
            [files |-> [emb |-> PickleDump(embs), meta |-> JsonDump(md)],
             raised |-> FALSE]
      [] mode = "fail_before" ->
            [files |-> fs, raised |-> TRUE]
      [] mode = "fail_pickle" ->
            [files |-> [fs EXCEPT !.emb = Corrupt], raised |-> TRUE]
      [] mode = "fail_open_meta" ->
            [files |-> [fs EXCEPT !.emb = PickleDump(embs)], raised |-> TRUE]
      [] mode = "fail_json" ->
            [files |-> [emb |-> PickleDump(embs), meta |-> Corrupt],
             raised |-> TRUE]

(***************************************************************************)
(* _load_existing_data, called by __init__ on empty lists.                 *)
(***************************************************************************)
LoadExistingData(fs) ==
    IF fs.emb.kind = "corrupt" THEN
        \* pickle.load raises: the handler empties both
        [embeddings |-> <<>>, metadata |-> <<>>]
    ELSE
        LET embs == IF fs.emb.kind = "pickle" THEN PickleLoad(fs.emb) ELSE <<>>
        IN  IF fs.meta.kind = "corrupt" THEN
                [embeddings |-> <<>>, metadata |-> <<>>]
            ELSE IF fs.meta.kind = "json" THEN
                [embeddings |-> embs, metadata |-> JsonLoad(fs.meta)]
            ELSE
                [embeddings |-> embs, metadata |-> <<>>]

(***************************************************************************)
(* The value of `ret` : the last call and what it gave back.               *)
(***************************************************************************)
NoStats == [total_documents |-> 0, total_chunks |-> 0]
Ret(op, doc, status) ==
    [op |-> op, doc |-> doc, status |-> status, flush_failed |-> FALSE,
     query |-> "", top_k |-> 0, results |-> <<>>, stats |-> NoStats,
     chunks |-> <<>>, vectors |-> 0,
     encode_called |-> FALSE, encode_failed |-> FALSE]

(***************************************************************************)
(* add_documents(document_id, chunks).                                     *)
(***************************************************************************)
EntryKeys == {"id", "filename", "chunk_index", "content", "length", "created_at"}

MetadataEntry(document_id, chunk, embedding_index) ==
    [chunk_id        |-> chunk.id,
     document_id     |-> document_id,
     filename        |-> chunk.filename,
     chunk_index     |-> chunk.chunk_index,
     content         |-> chunk.content,
     length          |-> chunk.length,
     created_at      |-> chunk.created_at,
     embedding_index |-> embedding_index]

\* The loop of lines 75-90 from chunk i on: append the vector, then build and
\* append the metadata entry; a missing key raises KeyError in between.
RECURSIVE AddLoop(_, _, _, _, _)
AddLoop(embs, md, document_id, chunks, i) ==
    IF i > Len(chunks) THEN [embeddings |-> embs, metadata |-> md, raised |-> FALSE]
    ELSE
        LET embs1 == Append(embs, Encode(chunks[i].content))
        IN  IF ~(EntryKeys \subseteq DOMAIN chunks[i])
            THEN [embeddings |-> embs1, metadata |-> md, raised |-> TRUE]
            ELSE AddLoop(embs1,
                         Append(md, MetadataEntry(document_id, chunks[i], Len(embs1) - 1)),
                         document_id, chunks, i + 1)

\* What self.model.encode(texts) does in a call of add_documents:
\*   "ok"     one vector per text;
\*   "raise"  it raises;
\*   "short"  it returns one vector less than there are texts (the first ones).
EncodeModes == {"ok", "raise", "short"}

\* zip(chunks, chunk_embeddings) stops at the shorter of the two.
Zipped(chunks, encode) ==
    IF encode = "short" THEN SubSeq(chunks, 1, Len(chunks) - 1) ELSE chunks

AddDocuments(document_id, chunks, encode, mode) ==
    /\ Len(embeddings) + Len(chunks) <= MaxRecords
    /\ deleted' = deleted \ {document_id}
    /\ IF \E i \in 1..Len(chunks) : "content" \notin DOMAIN chunks[i] THEN
           \* line 69: KeyError before anything is touched
           /\ encode = "ok" /\ mode = "ok" /\ faults < MaxFaults
           /\ faults' = faults + 1
           /\ ret' = [Ret("add_documents", document_id, "raised")
                      EXCEPT !.chunks = chunks]
           /\ UNCHANGED <<embeddings, metadata, files, flushed>>
       ELSE IF encode = "raise" THEN
           \* line 72: the embedding function raises
           /\ mode = "ok" /\ faults < MaxFaults
           /\ faults' = faults + 1
           /\ ret' = [Ret("add_documents", document_id, "raised")
                      EXCEPT !.chunks = chunks, !.encode_called = TRUE,
                             !.encode_failed = TRUE]
           /\ UNCHANGED <<embeddings, metadata, files, flushed>>
       ELSE
           LET loop == AddLoop(embeddings, metadata, document_id,
                               Zipped(chunks, encode), 1)
               save == SaveData(loop.embeddings, loop.metadata, files, mode)
               short == IF encode = "short" THEN 1 ELSE 0
           IN  /\ encode = "short" =>
                     /\ Len(chunks) >= 1
                     /\ \A i \in 1..Len(chunks) : EntryKeys \subseteq DOMAIN chunks[i]
               /\ embeddings' = loop.embeddings
               /\ metadata' = loop.metadata
               /\ IF loop.raised
                  THEN \* KeyError inside the loop: _save_data is not reached
                       /\ mode = "ok" /\ encode = "ok" /\ faults < MaxFaults
                       /\ files' = files
                       /\ faults' = faults + 1
                       /\ flushed' = flushed
                       /\ ret' = [Ret("add_documents", document_id, "raised")
                                  EXCEPT !.chunks = chunks, !.encode_called = TRUE,
                                         !.vectors = Len(Zipped(chunks, encode))]
                  ELSE /\ faults + short + (IF save.raised THEN 1 ELSE 0) <= MaxFaults
                       /\ files' = save.files
                       /\ faults' = faults + short + (IF save.raised THEN 1 ELSE 0)
                       /\ flushed' = IF save.raised THEN flushed
                                     ELSE [embeddings |-> loop.embeddings,
                                           metadata |-> loop.metadata]
                       /\ ret' = [Ret("add_documents", document_id,
                                      IF save.raised THEN "raised" ELSE "ok")
                                  EXCEPT !.flush_failed = save.raised,
                                         !.chunks = chunks,
                                         !.encode_called = TRUE,
                                         !.vectors = Len(Zipped(chunks, encode))]

(***************************************************************************)
(* delete_document(document_id).                                           *)
(***************************************************************************)
\* indices_to_remove, 0-based, as a set
IndicesToRemove(md, document_id) ==
    {i \in 0..(Len(md) - 1) : md[i + 1].document_id = document_id}

\* The loop of lines 167-169 over the indices in descending order:
\* `del self.embeddings[idx]` raises IndexError when idx is out of range.
RECURSIVE DeleteLoop(_, _, _)
DeleteLoop(embs, md, indices) ==
    IF indices = {} THEN [embeddings |-> embs, metadata |-> md, raised |-> FALSE]
    ELSE
        LET idx == CHOOSE i \in indices : \A j \in indices : j <= i
        IN  IF idx >= Len(embs)
            THEN [embeddings |-> embs, metadata |-> md, raised |-> TRUE]
            ELSE DeleteLoop(DelAt(embs, idx), DelAt(md, idx), indices \ {idx})

\* lines 172-173
Reindex(md) == [i \in 1..Len(md) |-> [md[i] EXCEPT !.embedding_index = i - 1]]

\* The early return left out: the call goes on to reindex and flush.
NothingToRemoveIgnored(indices) == FALSE

\* line 160: `if not indices_to_remove`
NothingToRemove(indices) == indices = {}

DeleteDocument(document_id, mode) ==
    LET indices == IndicesToRemove(metadata, document_id)
    IN  IF NothingToRemove(indices) THEN
            \* lines 160-162: nothing to remove, plain return
            /\ mode = "ok"
            /\ ret' = Ret("delete_document", document_id, "ok")
            /\ deleted' = deleted \cup {document_id}
            /\ UNCHANGED <<embeddings, metadata, files, faults, flushed>>
        ELSE
            LET loop == DeleteLoop(embeddings, metadata, indices)
                md1 == Reindex(loop.metadata)
                save == SaveData(loop.embeddings, md1, files, mode)
            IN  IF loop.raised THEN
                    \* IndexError: neither the reindexing nor the flush is reached
                    /\ mode = "ok"
                    /\ embeddings' = loop.embeddings
                    /\ metadata' = loop.metadata
                    /\ ret' = Ret("delete_document", document_id, "raised")
                    /\ UNCHANGED <<files, faults, flushed, deleted>>
                ELSE
                    /\ save.raised => faults < MaxFaults
                    /\ embeddings' = loop.embeddings
                    /\ metadata' = md1
                    /\ files' = save.files
                    /\ faults' = IF save.raised THEN faults + 1 ELSE faults
                    /\ flushed' = IF save.raised THEN flushed
                                  ELSE [embeddings |-> loop.embeddings, metadata |-> md1]
                    /\ deleted' = IF save.raised THEN deleted
                                  ELSE deleted \cup {document_id}
                    /\ ret' = [Ret("delete_document", document_id,
                                   IF save.raised THEN "raised" ELSE "ok")
                               EXCEPT !.flush_failed = save.raised]

(***************************************************************************)
(* search(query, top_k).                                                   *)
(***************************************************************************)
\* A sort that is not stable: an element goes in front of the elements
\* already placed whose score equals its own.
InsertDescUnstable(sorted, e) ==
    LET p == Cardinality({j \in 1..Len(sorted) : ScoreGt(sorted[j][2], e[2])})
    IN  SubSeq(sorted, 1, p) \o <<e>> \o SubSeq(sorted, p + 1, Len(sorted))

\* list.sort(key=lambda x: x[1], reverse=True): a stable sort, so an element
\* goes behind every element already placed whose score is >= its own.
InsertDesc(sorted, e) ==
    LET p == Cardinality({j \in 1..Len(sorted) : ScoreGeq(sorted[j][2], e[2])})
    IN  SubSeq(sorted, 1, p) \o <<e>> \o SubSeq(sorted, p + 1, Len(sorted))

RECURSIVE SortDesc(_)
SortDesc(s) ==
    IF Len(s) = 0 THEN <<>>
    ELSE InsertDesc(SortDesc(SubSeq(s, 1, Len(s) - 1)), s[Len(s)])

\* result = self.metadata[idx].copy(); result['score'] = float(score)
WithScore(entry, score) ==
    [k \in (DOMAIN entry) \cup {"score"} |-> IF k = "score" THEN score ELSE entry[k]]

RECURSIVE PrepareResponse(_, _)
PrepareResponse(filtered, md) ==
    IF Len(filtered) = 0 THEN <<>>
    ELSE LET idx == filtered[1][1]
             rest == PrepareResponse(Tail(filtered), md)
         IN  IF idx < Len(md)
             THEN <<WithScore(md[idx + 1], filtered[1][2])>> \o rest
             ELSE rest

\* filtered_results of lines 108-123: (index, score) pairs
FilteredResults(embs, query, top_k) ==
    LET query_embedding == Encode(query)
        similarities ==
            [i \in 1..Len(embs) |->
                <<i - 1, CosineSimilarity(query_embedding, embs[i])>>]
        top_results == Slice(SortDesc(similarities), top_k)
    IN  SelectSeq(top_results, LAMBDA r : ScoreGeq(r[2], Threshold))

SearchResults(embs, md, query, top_k, encodeOk) ==
    IF Len(embs) = 0 THEN <<>>                 \* lines 104-106
    ELSE IF ~encodeOk THEN <<>>                \* lines 136-138: swallowed
    ELSE PrepareResponse(FilteredResults(embs, query, top_k), md)

\* The score written into the stored dict itself (no .copy()).
StoredAfterSearchNoCopy(embs, md, query, top_k, encodeOk) ==
    IF Len(embs) = 0 \/ ~encodeOk THEN md
    ELSE LET filtered == FilteredResults(embs, query, top_k)
         IN  [i \in 1..Len(md) |->
                IF \E p \in 1..Len(filtered) : filtered[p][1] = i - 1
                THEN WithScore(md[i],
                               filtered[CHOOSE p \in 1..Len(filtered) :
                                            filtered[p][1] = i - 1][2])
                ELSE md[i]]

\* self.metadata after search: line 129 works on a copy of each entry, so the
\* stored entries are what they were.
StoredAfterSearch(embs, md, query, top_k, encodeOk) == md

Search(query, top_k, encodeOk) ==
    /\ ~encodeOk => (Len(embeddings) > 0 /\ faults < MaxFaults)
    /\ faults' = IF encodeOk THEN faults ELSE faults + 1
    /\ ret' = [Ret("search", "", "ok") EXCEPT
                  !.query = query, !.top_k = top_k,
                  !.status = IF encodeOk THEN "ok" ELSE "masked",
                  !.encode_called = Len(embeddings) > 0,
                  !.encode_failed = ~encodeOk,
                  !.results = SearchResults(embeddings, metadata, query, top_k, encodeOk)]
    /\ metadata' = StoredAfterSearch(embeddings, metadata, query, top_k, encodeOk)
    /\ UNCHANGED <<embeddings, files, flushed, deleted>>

(***************************************************************************)
(* get_stats().                                                            *)
(***************************************************************************)
\* Counting entries instead of distinct document ids.
StatsOfPerEntry(md) ==
    [total_documents |-> Len(md), total_chunks |-> Len(md)]

StatsOf(md) ==
    [total_documents |-> Cardinality({md[i].document_id : i \in 1..Len(md)}),
     total_chunks    |-> Len(md)]

GetStats ==
    /\ ret' = [Ret("get_stats", "", "ok") EXCEPT !.stats = StatsOf(metadata)]
    /\ UNCHANGED <<embeddings, metadata, files, faults, flushed, deleted>>

(***************************************************************************)
(* get_document_chunks(document_id).                                       *)
(***************************************************************************)
DocumentChunks(md, document_id) ==
    SelectSeq(md, LAMBDA m : m.document_id = document_id)

GetDocumentChunks(document_id) ==
    /\ ret' = [Ret("get_document_chunks", document_id, "ok") EXCEPT
                  !.results = DocumentChunks(metadata, document_id)]
    /\ UNCHANGED <<embeddings, metadata, files, faults, flushed, deleted>>

(***************************************************************************)
(* __init__ : a new VectorStore constructed over the artifacts on disk     *)
(* (process restart).                                                      *)
(***************************************************************************)
Construct ==
    LET loaded == LoadExistingData(files)
    IN  /\ embeddings' = loaded.embeddings
        /\ metadata' = loaded.metadata
        /\ flushed' = loaded
        /\ ret' = Ret("init", "", "ok")
        /\ UNCHANGED <<files, faults, deleted>>

(***************************************************************************)
(* The process stops inside _save_data (power loss, kill): no exception is *)
(* handled, the store in memory is gone, and the disk keeps what had been   *)
(* written.  The points where it can stop leave the files that the failure *)
(* modes of SaveData leave: before the first write ("fail_before"), inside *)
(* the first write ("fail_pickle"), between the two writes                   *)
(* ("fail_open_meta"), inside the second write ("fail_json"), after both    *)
(* ("ok").  `ret.op = "crash"` marks the time until the next VectorStore is *)
(* constructed.                                                            *)
(***************************************************************************)
CrashPoints == SaveModes

Alive == ret.op # "crash"

WellFormed(chunks) ==
    \A i \in 1..Len(chunks) : (EntryKeys \cup {"content"}) \subseteq DOMAIN chunks[i]

\* What a crash at `point` of the flush of (embs, md) leaves behind.  A
\* crash counts as an injected failure.
Crashed(document_id, embs, md, point) ==
    /\ faults < MaxFaults
    /\ faults' = faults + 1
    /\ files' = SaveData(embs, md, files, point).files
    /\ embeddings' = <<>>
    /\ metadata' = <<>>
    /\ flushed' = IF point = "ok" THEN [embeddings |-> embs, metadata |-> md]
                  ELSE flushed
    /\ ret' = Ret("crash", document_id, "stopped")
    /\ UNCHANGED deleted

\* add_documents of well-formed chunks that stops inside its flush (line 93)
CrashInAdd ==
    /\ Alive
    /\ \E document_id \in DocIds, point \in CrashPoints :
          \E chunks \in ChunkLists(document_id) :
              /\ WellFormed(chunks)
              /\ Len(embeddings) + Len(chunks) <= MaxRecords
              /\ LET loop == AddLoop(embeddings, metadata, document_id, chunks, 1)
                 IN  Crashed(document_id, loop.embeddings, loop.metadata, point)

\* delete_document that stops inside its flush (line 176)
CrashInDelete ==
    /\ Alive
    /\ \E document_id \in DocIds, point \in CrashPoints :
          LET indices == IndicesToRemove(metadata, document_id)
              loop == DeleteLoop(embeddings, metadata, indices)
          IN  /\ ~NothingToRemove(indices)
              /\ ~loop.raised
              /\ Crashed(document_id, loop.embeddings, Reindex(loop.metadata), point)

\* add_documents and delete_document of a running process, nothing failing
AddClean ==
    /\ Alive
    /\ \E document_id \in DocIds :
          \E chunks \in ChunkLists(document_id) :
              WellFormed(chunks) /\ AddDocuments(document_id, chunks, "ok", "ok")

DeleteClean == Alive /\ \E document_id \in DocIds : DeleteDocument(document_id, "ok")

(***************************************************************************)
(* The HTTP handlers of app.py on the event loop of the one server         *)
(* process.  A request is a coroutine; it runs until it reaches an await   *)
(* that suspends it, and only then can another request run.                 *)
(***************************************************************************)
Reqs == 1..MaxRequests

\* document_id of the upload of request r: str(uuid.uuid4()), never seen before
ReqDoc(r) == "d" \o ToString(r)

\* What process_document returns for the document of an upload named
\* `filename`: the chunk dicts of _create_chunk_dict with chunk_index 0, 1, ...
ProcessedChunks(document_id, filename) ==
    {[i \in 1..n |-> CreateChunkDict(DocText(document_id, i - 1), document_id,
                                     filename, i - 1)] : n \in 0..MaxChunks}

\* File names are sequences of characters.  str.lower() on them:
Lower(c) == CASE c = "T" -> "t" [] c = "X" -> "x" [] c = "M" -> "m" [] c = "D" -> "d"
              [] OTHER -> c
LowerStr(s) == [i \in 1..Len(s) |-> Lower(s[i])]

\* The file name as the string it is.
RECURSIVE FilenameStr(_)
FilenameStr(s) == IF s = <<>> THEN "" ELSE Head(s) \o FilenameStr(Tail(s))

\* str.endswith
EndsWith(s, suffix) ==
    /\ Len(suffix) <= Len(s)
    /\ SubSeq(s, Len(s) - Len(suffix) + 1, Len(s)) = suffix

\* upload_document line 111
AllowedTypes ==
    {<<".", "p", "d", "f">>, <<".", "t", "x", "t">>, <<".", "d", "o", "c", "x">>,
     <<".", "m", "d">>}

\* line 107: 50 * 1024 * 1024 bytes
MaxUploadSize == 52428800

\* The uploads of the model: no name, an allowed suffix in lower and in upper
\* case, a suffix that is not allowed, an allowed type without its dot.
UploadFilenames ==
    {<<>>, <<"f", ".", "t", "x", "t">>, <<"f", ".", "T", "X", "T">>,
     <<"f", ".", "e", "x", "e">>, <<"t", "x", "t">>}
\* The contents: of a size, and bytes that content.decode('utf-8') accepts
\* or not (the one byte 0xff).
FileContents ==
    {[size |-> 1, decodable |-> TRUE], [size |-> 1, decodable |-> FALSE],
     [size |-> MaxUploadSize + 1, decodable |-> TRUE]}

\* _extract_text lines 43-49 for a .txt or .md file: the UnicodeDecodeError of
\* b'\xff'.decode('utf-8') is raised again as ValueError with its str(e).
ExtractFailure(filename) ==
    [type |-> "ValueError", status_code |-> 0,
     detail |-> "Failed to extract text from " \o FilenameStr(filename) \o ": "
                    \o "'utf-8' codec can't decode byte 0xff in position 0: "
                    \o "invalid start byte"]

\* Exceptions: HTTPException(status_code, detail) and the others (message).
NoException == [type |-> "none", status_code |-> 0, detail |-> ""]
HTTPException(status_code, detail) ==
    [type |-> "HTTPException", status_code |-> status_code, detail |-> detail]
OtherException(type, message) == [type |-> type, status_code |-> 0, detail |-> message]

\* str(e), what it can be: the message of the exception; for an
\* HTTPException it depends on the release of the web framework that is
\* installed (the repository pins none): "<status_code>: <detail>" where the
\* class defines __str__, the empty string where it does not.
StrOf(e) ==
    IF e.type = "HTTPException"
    THEN {ToString(e.status_code) \o ": " \o e.detail, ""}
    ELSE {e.detail}

UnsupportedDetail == "Unsupported file type. Allowed: .pdf, .txt, .docx, .md"

\* lines 102-116: the exception of the first check that fails, if any.
FilenameCheck(filename) ==
    IF filename = <<>> THEN HTTPException(400, "No file provided") ELSE NoException

ContentChecks(filename, size) ==
    IF size > MaxUploadSize THEN HTTPException(400, "File too large (max 50MB)")
    ELSE IF ~\E ext \in AllowedTypes : EndsWith(LowerStr(filename), ext)
    THEN HTTPException(400, UnsupportedDetail)
    ELSE NoException

\* The response a client gets.
NoResponse == [status |-> 0, detail |-> "", answer |-> "", sources |-> <<>>]
Ok(answer, sources) == [status |-> 200, detail |-> "", answer |-> answer, sources |-> sources]

\* An HTTPException that leaves the handler becomes the response.
ErrorResponse(e) ==
    [status |-> e.status_code, detail |-> e.detail, answer |-> "", sources |-> <<>>]

\* The handlers' `except Exception as e: raise HTTPException(500, str(e))`
\* (lines 148-150, 188-190, 214-216): whatever was raised inside the try.
Caught(e) == {ErrorResponse(HTTPException(500, text)) : text \in StrOf(e)}

NoInformationAnswer == "I couldn't find any relevant information in the uploaded documents."
LlmAnswer == "<answer of the LLM service>"

\* line 161: `if not relevant_chunks`
NoRelevantChunksNever(relevant_chunks) == FALSE

NoRelevantChunks(relevant_chunks) == relevant_chunks = <<>>

\* lines 172-180: the sources of the response
Sources(relevant_chunks) ==
    [j \in 1..Len(relevant_chunks) |->
        [document_id |-> relevant_chunks[j].document_id,
         filename |-> relevant_chunks[j].filename,
         similarity_score |-> relevant_chunks[j].score]]

\* The documents the vector store holds records of, and the documents of
\* the database.
StoreDocuments == {metadata[i].document_id : i \in 1..Len(metadata)}
DbDocuments == {row.id : row \in db}

NoRequest ==
    [kind |-> "none", pc |-> "new", doc |-> "", chunks |-> <<>>, i |-> 1, todo |-> {},
     filename |-> <<>>, size |-> 0, decodable |-> TRUE, zipped |-> <<>>, exc |-> NoException, resp |-> NoResponse,
     relevant_chunks |-> <<>>, llm_called |-> FALSE,
     \* history: whether the document of a delete request was in the vector
     \* store and in the database when the request arrived
     present |-> FALSE,
     \* len(chunks) of the upload handler (app.py line 133)
     chunks_created |-> 0]

NoRequests == [r \in Reqs |-> NoRequest]

\* The positions inside add_documents and delete_document, from the first
\* statement after the call to the return.
StoreInternal ==
    {"add_encode", "add_emb", "add_meta", "add_save",
     "del_emb", "del_meta", "del_reindex", "del_save"}

\* As if every statement of the store were followed by a suspending await.
YieldsEverywhere(pc) == TRUE

\* Whether a request standing at position pc has given the event loop back:
\* the awaits of the handlers (app.py lines 106, 121, 126, 134, 137, 159, 169,
\* 207, 210) and of the database service (database.py lines 56-69 and
\* 136-141) may suspend; add_documents and delete_document contain no await.
Yields(pc) == pc \notin StoreInternal

Runnable(r) == running \in {0, r}

\* Request r goes on to position pc with locals rec.
Goto(r, pc, rec) ==
    /\ hs' = [hs EXCEPT ![r] = [rec EXCEPT !.pc = pc]]
    /\ running' = IF Yields(pc) THEN 0 ELSE r

\* Request r ends with the exception e caught by its handler.
Failed(r, rec, e) ==
    \E resp \in Caught(e) : Goto(r, "error", [rec EXCEPT !.exc = e, !.resp = resp])

\* A request arrives: POST /upload, DELETE /documents/{id}, POST /query, or a
\* caller of get_stats.  Requests are numbered in their order of arrival.
Arrive(r) ==
    /\ hs[r].kind = "none" /\ Runnable(r)
    /\ \A q \in 1..(r - 1) : hs[q].kind # "none"
    /\ \E kind \in {"upload", "delete", "query", "stats"} :
          \/ /\ kind = "upload"
             /\ \E filename \in UploadFilenames :
                   LET rec == [hs[r] EXCEPT !.kind = kind, !.doc = ReqDoc(r),
                                            !.filename = filename]
                       e == FilenameCheck(filename)
                   IN  IF e.type # "none" THEN Failed(r, rec, e)
                       ELSE Goto(r, "read", rec)
          \/ /\ kind = "delete"
             /\ \E q \in Reqs :
                   Goto(r, "del_find",
                        [hs[r] EXCEPT !.kind = kind, !.doc = ReqDoc(q),
                                      !.present = /\ ReqDoc(q) \in StoreDocuments
                                                  /\ ReqDoc(q) \in DbDocuments])
          \/ /\ kind = "query"
             /\ Goto(r, "search", [hs[r] EXCEPT !.kind = kind])
          \/ /\ kind = "stats"
             /\ Goto(r, "stats", [hs[r] EXCEPT !.kind = kind])
    /\ UNCHANGED <<embeddings, metadata, files, ret, faults, flushed, deleted, ck, made, cfg, db>>

\* upload_document lines 106-124: file.read() has returned; the size and the
\* type are checked; process_document is awaited.
UploadRead(r) ==
    /\ hs[r].pc = "read" /\ Runnable(r)
    /\ \E content \in FileContents :
          LET rec == [hs[r] EXCEPT !.size = content.size,
                                   !.decodable = content.decodable]
              e == ContentChecks(hs[r].filename, content.size)
          IN  IF e.type # "none" THEN Failed(r, rec, e)
              ELSE Goto(r, "process", rec)
    /\ UNCHANGED <<embeddings, metadata, files, ret, faults, flushed, deleted, ck, made, cfg, db>>

\* lines 121-126: process_document returns the chunks, which carry the file
\* name of the upload, and add_documents is entered; or it raises ValueError,
\* for a content that does not decode or for a file without text.
UploadProcess(r) ==
    /\ hs[r].pc = "process" /\ Runnable(r)
    /\ IF ~hs[r].decodable
       THEN Failed(r, hs[r], ExtractFailure(hs[r].filename))
       ELSE \/ \E chunks \in ProcessedChunks(hs[r].doc, FilenameStr(hs[r].filename)) :
                  /\ Len(embeddings) + Len(chunks) <= MaxRecords
                  /\ Goto(r, "add_encode", [hs[r] EXCEPT !.chunks = chunks,
                                                         !.chunks_created = Len(chunks)])
            \/ Failed(r, hs[r], OtherException("ValueError",
                                                 "No text content found in document"))
    /\ UNCHANGED <<embeddings, metadata, files, ret, faults, flushed, deleted, ck, made, cfg, db>>

\* add_documents lines 69-72: the texts are encoded.
AddEncode(r) ==
    /\ hs[r].pc = "add_encode" /\ Runnable(r)
    /\ \E encode \in EncodeModes :
          LET zipped == Zipped(hs[r].chunks, encode)
          IN  /\ encode = "short" => Len(hs[r].chunks) >= 1
              /\ encode # "ok" => faults < MaxFaults
              /\ faults' = IF encode = "ok" THEN faults ELSE faults + 1
              /\ IF encode = "raise"
                 THEN /\ Failed(r, hs[r], OtherException("Exception", "encode failed"))
                      /\ ret' = [Ret("add_documents", hs[r].doc, "raised")
                                 EXCEPT !.chunks = hs[r].chunks,
                                        !.encode_called = TRUE,
                                        !.encode_failed = TRUE]
                 ELSE /\ Goto(r, IF zipped = <<>> THEN "add_save" ELSE "add_emb",
                              [hs[r] EXCEPT !.zipped = zipped, !.i = 1])
                      /\ ret' = ret
    /\ UNCHANGED <<embeddings, metadata, files, flushed, deleted, ck, made, cfg, db>>

\* line 76: self.embeddings.append(embedding)
AddEmbedding(r) ==
    /\ hs[r].pc = "add_emb" /\ Runnable(r)
    /\ embeddings' = Append(embeddings, Encode(hs[r].zipped[hs[r].i].content))
    /\ Goto(r, "add_meta", hs[r])
    /\ UNCHANGED <<metadata, files, ret, faults, flushed, deleted, ck, made, cfg, db>>

\* lines 79-90: the metadata entry is built and appended; next chunk.
AddMetadata(r) ==
    /\ hs[r].pc = "add_meta" /\ Runnable(r)
    /\ metadata' = Append(metadata,
                          MetadataEntry(hs[r].doc, hs[r].zipped[hs[r].i],
                                        Len(embeddings) - 1))
    /\ Goto(r, IF hs[r].i < Len(hs[r].zipped) THEN "add_emb" ELSE "add_save",
            [hs[r] EXCEPT !.i = hs[r].i + 1])
    /\ UNCHANGED <<embeddings, files, ret, faults, flushed, deleted, ck, made, cfg, db>>

\* line 93 and the return to upload_document, or lines 97-99 and the
\* handler's except clause.
AddSave(r) ==
    /\ hs[r].pc = "add_save" /\ Runnable(r)
    /\ \E mode \in SaveModes :
          LET save == SaveData(embeddings, metadata, files, mode)
          IN  /\ save.raised => faults < MaxFaults
              /\ faults' = IF save.raised THEN faults + 1 ELSE faults
              /\ files' = save.files
              /\ flushed' = IF save.raised THEN flushed
                            ELSE [embeddings |-> embeddings, metadata |-> metadata]
              /\ ret' = [Ret("add_documents", hs[r].doc,
                             IF save.raised THEN "raised" ELSE "ok")
                         EXCEPT !.flush_failed = save.raised,
                                !.chunks = hs[r].chunks,
                                !.encode_called = TRUE,
                                !.vectors = Len(hs[r].zipped)]
              /\ IF save.raised
                 THEN Failed(r, hs[r], OtherException("OSError", "save failed"))
                 ELSE Goto(r, "db", hs[r])
    /\ deleted' = deleted \ {hs[r].doc}
    /\ UNCHANGED <<embeddings, metadata, ck, made, cfg, db>>

\* store_document_metadata (database.py lines 53-74): INSERT and commit; a
\* row with the same primary key, or any other database error, raises and
\* leaves the table as it was.
DbInsert(rows, document_id, chunks, dbOk) ==
    IF dbOk /\ ~\E row \in rows : row.id = document_id
    THEN [rows |-> rows \cup {[id |-> document_id, chunks |-> chunks]}, raised |-> FALSE]
    ELSE [rows |-> rows, raised |-> TRUE]

\* delete_document (database.py lines 133-145): DELETE WHERE id = ? and commit.
DbDelete(rows, document_id, dbOk) ==
    IF dbOk THEN [rows |-> {row \in rows : row.id # document_id}, raised |-> FALSE]
    ELSE [rows |-> rows, raised |-> TRUE]

\* upload_document lines 129-137 and store_document_metadata (database.py
\* lines 53-69) up to the return of `await db.commit()`: from here on the
\* row is visible to the other requests.  The coroutine is then suspended in
\* the close of `async with aiosqlite.connect` (line 56), with the exception
\* of a failed statement still to be raised.
UploadStoreMetadata(r) ==
    /\ hs[r].pc = "db" /\ Runnable(r)
    /\ \E dbOk \in BOOLEAN :
          LET ins == DbInsert(db, hs[r].doc, hs[r].chunks_created, dbOk)
          IN  /\ ~dbOk => faults < MaxFaults
              /\ faults' = IF dbOk THEN faults ELSE faults + 1
              /\ db' = ins.rows
              /\ Goto(r, "db_close",
                      [hs[r] EXCEPT !.exc = IF ins.raised
                                            THEN OtherException("sqlite3.Error", "insert failed")
                                            ELSE NoException])
    /\ UNCHANGED <<embeddings, metadata, files, ret, flushed, deleted, ck, made, cfg>>

\* The connection is closed and store_document_metadata returns or raises
\* (database.py lines 70-74): upload_document answers, lines 141-146, or its
\* except clause does, lines 148-150.
UploadRespond(r) ==
    /\ hs[r].pc = "db_close" /\ Runnable(r)
    /\ IF hs[r].exc.type # "none"
       THEN Failed(r, hs[r], hs[r].exc)
       ELSE Goto(r, "done", [hs[r] EXCEPT !.resp = Ok("", <<>>)])
    /\ UNCHANGED <<embeddings, metadata, files, ret, faults, flushed, deleted, ck, made, cfg, db>>

\* delete_document (vector store) lines 154-165: the indices to remove.
DeleteFind(r) ==
    /\ hs[r].pc = "del_find" /\ Runnable(r)
    /\ LET indices == IndicesToRemove(metadata, hs[r].doc)
       IN  IF NothingToRemove(indices)
           THEN /\ Goto(r, "db_delete", hs[r])
                /\ ret' = Ret("delete_document", hs[r].doc, "ok")
                /\ deleted' = deleted \cup {hs[r].doc}
           ELSE /\ Goto(r, "del_emb", [hs[r] EXCEPT !.todo = indices])
                /\ UNCHANGED <<ret, deleted>>
    /\ UNCHANGED <<embeddings, metadata, files, faults, flushed, ck, made, cfg, db>>

\* The index the loop of lines 167-169 is at: the largest one left.
NextIndex(todo) == CHOOSE i \in todo : \A j \in todo : j <= i

\* line 168: del self.embeddings[idx]
DeleteEmbedding(r) ==
    /\ hs[r].pc = "del_emb" /\ Runnable(r)
    /\ LET idx == NextIndex(hs[r].todo)
       IN  IF idx >= Len(embeddings)
           THEN /\ Failed(r, hs[r], OtherException("IndexError",
                                                     "list assignment index out of range"))
                /\ ret' = Ret("delete_document", hs[r].doc, "raised")
                /\ embeddings' = embeddings
           ELSE /\ Goto(r, "del_meta", hs[r])
                /\ embeddings' = DelAt(embeddings, idx)
                /\ ret' = ret
    /\ UNCHANGED <<metadata, files, faults, flushed, deleted, ck, made, cfg, db>>

\* line 169: del self.metadata[idx]; next index.
DeleteMetadata(r) ==
    /\ hs[r].pc = "del_meta" /\ Runnable(r)
    /\ LET idx == NextIndex(hs[r].todo)
           rest == hs[r].todo \ {idx}
       IN  IF idx >= Len(metadata)
           THEN /\ Failed(r, hs[r], OtherException("IndexError",
                                                     "list assignment index out of range"))
                /\ ret' = Ret("delete_document", hs[r].doc, "raised")
                /\ metadata' = metadata
           ELSE /\ Goto(r, IF rest = {} THEN "del_reindex" ELSE "del_emb",
                        [hs[r] EXCEPT !.todo = rest])
                /\ metadata' = DelAt(metadata, idx)
                /\ ret' = ret
    /\ UNCHANGED <<embeddings, files, faults, flushed, deleted, ck, made, cfg, db>>

\* lines 172-173: embedding_index rewritten
DeleteReindex(r) ==
    /\ hs[r].pc = "del_reindex" /\ Runnable(r)
    /\ metadata' = Reindex(metadata)
    /\ Goto(r, "del_save", hs[r])
    /\ UNCHANGED <<embeddings, files, ret, faults, flushed, deleted, ck, made, cfg, db>>

\* line 176 and the return to the handler, or lines 180-182 and the handler's
\* except clause.
DeleteSave(r) ==
    /\ hs[r].pc = "del_save" /\ Runnable(r)
    /\ \E mode \in SaveModes :
          LET save == SaveData(embeddings, metadata, files, mode)
          IN  /\ save.raised => faults < MaxFaults
              /\ faults' = IF save.raised THEN faults + 1 ELSE faults
              /\ files' = save.files
              /\ flushed' = IF save.raised THEN flushed
                            ELSE [embeddings |-> embeddings, metadata |-> metadata]
              /\ deleted' = IF save.raised THEN deleted
                            ELSE deleted \cup {hs[r].doc}
              /\ ret' = [Ret("delete_document", hs[r].doc,
                             IF save.raised THEN "raised" ELSE "ok")
                         EXCEPT !.flush_failed = save.raised]
              /\ IF save.raised
                 THEN Failed(r, hs[r], OtherException("OSError", "save failed"))
                 ELSE Goto(r, "db_delete", hs[r])
    /\ UNCHANGED <<embeddings, metadata, ck, made, cfg, db>>

\* app.py line 210 and delete_document (database.py lines 133-141) up to the
\* return of `await db.commit()`: the row is gone for the other requests.
\* The coroutine is then suspended in the close of `async with` (line 136).
DeleteDb(r) ==
    /\ hs[r].pc = "db_delete" /\ Runnable(r)
    /\ \E dbOk \in BOOLEAN :
          LET del == DbDelete(db, hs[r].doc, dbOk)
          IN  /\ ~dbOk => faults < MaxFaults
              /\ faults' = IF dbOk THEN faults ELSE faults + 1
              /\ db' = del.rows
              /\ Goto(r, "db_delete_close",
                      [hs[r] EXCEPT !.exc = IF del.raised
                                            THEN OtherException("sqlite3.Error", "delete failed")
                                            ELSE NoException])
    /\ UNCHANGED <<embeddings, metadata, files, ret, flushed, deleted, ck, made, cfg>>

\* The connection is closed and delete_document returns or raises (database.py
\* lines 142-145): the handler answers, app.py line 212, or its except clause
\* does, lines 214-216.
DeleteRespond(r) ==
    /\ hs[r].pc = "db_delete_close" /\ Runnable(r)
    /\ IF hs[r].exc.type # "none"
       THEN Failed(r, hs[r], hs[r].exc)
       ELSE Goto(r, "done", [hs[r] EXCEPT !.resp = Ok("", <<>>)])
    /\ UNCHANGED <<embeddings, metadata, files, ret, faults, flushed, deleted, ck, made, cfg, db>>

\* query_documents lines 159-169: search; with no result the fixed answer is
\* returned, otherwise the LLM is awaited.
QuerySearch(r) ==
    /\ hs[r].pc = "search" /\ Runnable(r)
    /\ \E q \in Queries, k \in TopKs, encodeOk \in BOOLEAN : Search(q, k, encodeOk)
    /\ LET relevant_chunks == ret'.results
       IN  IF NoRelevantChunks(relevant_chunks)
           THEN Goto(r, "done", [hs[r] EXCEPT !.relevant_chunks = relevant_chunks,
                                              !.resp = Ok(NoInformationAnswer, <<>>)])
           ELSE Goto(r, "llm", [hs[r] EXCEPT !.relevant_chunks = relevant_chunks])
    /\ UNCHANGED <<ck, made, cfg, db>>

\* lines 169-186: the answer of the LLM, response.
QueryAnswer(r) ==
    /\ hs[r].pc = "llm" /\ Runnable(r)
    /\ Goto(r, "done", [hs[r] EXCEPT !.llm_called = TRUE,
                                     !.resp = Ok(LlmAnswer, Sources(hs[r].relevant_chunks))])
    /\ UNCHANGED <<embeddings, metadata, files, ret, faults, flushed, deleted, ck, made, cfg, db>>

\* a call of vector_store.get_stats()
StatsCall(r) ==
    /\ hs[r].pc = "stats" /\ Runnable(r)
    /\ GetStats
    /\ Goto(r, "done", hs[r])
    /\ UNCHANGED <<ck, made, cfg, db>>

NextConc ==
    \/ \E r \in Reqs : Arrive(r)
    \/ \E r \in Reqs : UploadRead(r)
    \/ \E r \in Reqs : UploadProcess(r)
    \/ \E r \in Reqs : AddEncode(r)
    \/ \E r \in Reqs : AddEmbedding(r)
    \/ \E r \in Reqs : AddMetadata(r)
    \/ \E r \in Reqs : AddSave(r)
    \/ \E r \in Reqs : UploadStoreMetadata(r)
    \/ \E r \in Reqs : UploadRespond(r)
    \/ \E r \in Reqs : DeleteFind(r)
    \/ \E r \in Reqs : DeleteEmbedding(r)
    \/ \E r \in Reqs : DeleteMetadata(r)
    \/ \E r \in Reqs : DeleteReindex(r)
    \/ \E r \in Reqs : DeleteSave(r)
    \/ \E r \in Reqs : DeleteDb(r)
    \/ \E r \in Reqs : DeleteRespond(r)
    \/ \E r \in Reqs : QuerySearch(r)
    \/ \E r \in Reqs : QueryAnswer(r)
    \/ \E r \in Reqs : StatsCall(r)

(***************************************************************************)
(* DocumentProcessor (document_processor.py).  A text is a sequence of     *)
(* one-character strings.                                                  *)
(***************************************************************************)
\* The page marker that _extract_pdf_text puts in front of each page.
PageMarker == <<"-", "-", "-", " ", "P", "a", "g", "e", " ", "1", " ", "-", "-", "-">>

\* Character classes of the regular expressions.
IsSpace(c) == c = " "                                     \* \s
IsWord(c) == c \in {"a", "P", "g", "e", "1"}                \* \w
IsDigit(c) == c = "1"                                     \* \d
IsStop(c) == c \in {".", "!", "?"}                         \* [.!?]
IsKept(c) ==                                              \* [\w\s\.\,\;\:\!\?\-\(\)]
    IsWord(c) \/ IsSpace(c) \/ c \in {".", ",", ";", ":", "!", "?", "-", "(", ")"}

\* The input texts: the concatenation of up to MaxTextLen tokens, a token
\* being a letter, a space, a full stop, a character outside the kept class,
\* or a page marker.
Tokens == {<<"a">>, <<" ">>, <<".">>, <<"#">>, PageMarker}

RECURSIVE TextsOfLen(_)
TextsOfLen(n) ==
    IF n = 0 THEN {<<>>}
    ELSE {t \o tok : t \in TextsOfLen(n - 1), tok \in Tokens}

Texts == UNION {TextsOfLen(n) : n \in 0..MaxTextLen}

ChunkSizes == 1..MaxChunkSize
Overlaps == 0..MaxOverlap

\* str.strip()
RECURSIVE LStrip(_)
LStrip(s) == IF s # <<>> /\ IsSpace(Head(s)) THEN LStrip(Tail(s)) ELSE s

RECURSIVE RStrip(_)
RStrip(s) ==
    IF s # <<>> /\ IsSpace(s[Len(s)]) THEN RStrip(SubSeq(s, 1, Len(s) - 1)) ELSE s

Strip(s) == RStrip(LStrip(s))

\* re.sub(r'\s+', ' ', text)
RECURSIVE CollapseWhitespace(_)
CollapseWhitespace(s) ==
    IF s = <<>> THEN <<>>
    ELSE IF IsSpace(Head(s)) THEN <<" ">> \o CollapseWhitespace(LStrip(s))
    ELSE <<Head(s)>> \o CollapseWhitespace(Tail(s))

\* re.sub(r'[^\w\s\.\,\;\:\!\?\-\(\)]', ' ', text)
ReplaceSpecial(s) == [i \in 1..Len(s) |-> IF IsKept(s[i]) THEN s[i] ELSE " "]

\* Length of the match of r'--- Page \d+ ---' that starts at position i of s,
\* 0 when there is none.
MarkerMatch(s, i) ==
    LET head == <<"-", "-", "-", " ", "P", "a", "g", "e", " ">>
        tail == <<" ", "-", "-", "-">>
        at(j, w) == j + Len(w) - 1 <= Len(s) /\ SubSeq(s, j, j + Len(w) - 1) = w
        digits == IF at(i, head)
                  THEN {k \in 1..Len(s) :
                           /\ i + Len(head) + k - 1 <= Len(s)
                           /\ \A d \in 0..(k - 1) : IsDigit(s[i + Len(head) + d])}
                  ELSE {}
        full == {k \in digits : at(i + Len(head) + k, tail)}
    IN  IF full = {} THEN 0
        ELSE Len(head) + (CHOOSE k \in full : \A l \in full : l <= k) + Len(tail)

\* re.sub(r'--- Page \d+ ---', '', text), from position i on
RECURSIVE RemoveMarkers(_, _)
RemoveMarkers(s, i) ==
    IF i > Len(s) THEN <<>>
    ELSE IF MarkerMatch(s, i) > 0 THEN RemoveMarkers(s, i + MarkerMatch(s, i))
    ELSE <<s[i]>> \o RemoveMarkers(s, i + 1)

\* _clean_text
CleanText(text) ==
    Strip(RemoveMarkers(ReplaceSpecial(CollapseWhitespace(text)), 1))

\* re.split(r'[.!?]+', text): the pieces between the runs of stop characters
\* (empty pieces included), from position i on, `cur` being the piece so far.
RECURSIVE SkipStops(_, _)
SkipStops(s, i) == IF i <= Len(s) /\ IsStop(s[i]) THEN SkipStops(s, i + 1) ELSE i

RECURSIVE ReSplit(_, _, _)
ReSplit(s, i, cur) ==
    IF i > Len(s) THEN <<cur>>
    ELSE IF IsStop(s[i]) THEN <<cur>> \o ReSplit(s, SkipStops(s, i), <<>>)
    ELSE ReSplit(s, i + 1, Append(cur, s[i]))

\* _split_into_sentences
SplitIntoSentences(text) ==
    LET pieces == ReSplit(text, 1, <<>>)
        stripped == [j \in 1..Len(pieces) |-> Strip(pieces[j])]
    IN  SelectSeq(stripped, LAMBDA x : x # <<>>)

\* text[-overlap_size:] of Python: the whole text when overlap_size is 0.
LastChars(text, n) ==
    IF n = 0 THEN text ELSE SubSeq(text, Max(Len(text) - n, 0) + 1, Len(text))

\* _get_overlap_text
GetOverlapText(text, overlap_size) ==
    IF Len(text) <= overlap_size THEN text ELSE LastChars(text, overlap_size)

\* The document processor at rest.
NoChunking ==
    [pc |-> "idle", raw |-> <<>>, chunk_size |-> 1, chunk_overlap |-> 0,
     text |-> <<>>, sentences |-> <<>>, i |-> 1,
     current_chunk |-> <<>>, current_length |-> 0, chunk_index |-> 0,
     chunks |-> <<>>,
     \* history: for each chunk closed in the loop, the running chunk as it
     \* was (`closed`) and the overlap text taken from it (`overlap_text`);
     \* for each chunk begun, the index of the first sentence put into it
     seeds |-> <<>>, starts |-> <<>>]

\* A call process_document of a file whose extracted text is `raw`, under a
\* configuration (chunk_size, chunk_overlap).
ChunkerCalls ==
    {[NoChunking EXCEPT !.pc = "called", !.raw = raw,
                        !.chunk_size = size, !.chunk_overlap = overlap] :
        raw \in Texts, size \in ChunkSizes, overlap \in Overlaps}

\* process_document lines 26-27: no text, ValueError.
ProcessReject ==
    /\ ck.pc = "called"
    /\ Strip(ck.raw) = <<>>
    /\ ck' = [ck EXCEPT !.pc = "raised"]

\* process_document line 30 and _create_chunks lines 82-92: clean, split,
\* initialise the locals.
CreateChunksStart ==
    /\ ck.pc = "called"
    /\ Strip(ck.raw) # <<>>
    /\ ck' = [ck EXCEPT !.pc = "loop",
                        !.text = CleanText(ck.raw),
                        !.sentences = SplitIntoSentences(CleanText(ck.raw)),
                        !.i = 1, !.current_chunk = <<>>, !.current_length = 0,
                        !.chunk_index = 0, !.chunks = <<>>,
                        !.seeds = <<>>, !.starts = <<>>]

\* The next chunk_index stays what it is.
NextChunkIndexStuck(chunk_index) == chunk_index

\* line 110: chunk_index += 1
NextChunkIndex(chunk_index) == chunk_index + 1

\* The sentence joins without its last character.
WithSentenceCut(chunk, sentence) ==
    chunk \o <<" ">> \o SubSeq(sentence, 1, Len(sentence) - 1)

\* lines 108 and 112: chunk + " " + sentence
WithSentence(chunk, sentence) == chunk \o <<" ">> \o sentence

\* line 98: `current_length + sentence_length > self.chunk_size and current_chunk`
ClosesChunk(c) ==
    /\ c.current_length + Len(c.sentences[c.i]) > c.chunk_size
    /\ c.current_chunk # <<>>

\* One iteration of the loop, lines 98-110: the running chunk is emitted and
\* the next one is seeded with the overlap text.
CreateChunksClose ==
    /\ ck.pc = "loop" /\ ck.i <= Len(ck.sentences)
    /\ ClosesChunk(ck)
    /\ LET sentence == ck.sentences[ck.i]
           overlap_text == GetOverlapText(ck.current_chunk, ck.chunk_overlap)
           current_chunk == WithSentence(overlap_text, sentence)
       IN  ck' = [ck EXCEPT
                    !.chunks = Append(ck.chunks,
                                      CreateChunkDict(Strip(ck.current_chunk), "d1",
                                                      Filename, ck.chunk_index)),
                    !.current_chunk = current_chunk,
                    !.current_length = Len(current_chunk),
                    !.chunk_index = NextChunkIndex(ck.chunk_index),
                    !.i = ck.i + 1,
                    !.seeds = Append(ck.seeds, [closed |-> ck.current_chunk,
                                                overlap_text |-> overlap_text]),
                    !.starts = Append(ck.starts, ck.i)]

\* One iteration of the loop, lines 111-113: the sentence joins the running
\* chunk.
CreateChunksAppend ==
    /\ ck.pc = "loop" /\ ck.i <= Len(ck.sentences)
    /\ ~ClosesChunk(ck)
    /\ LET sentence == ck.sentences[ck.i]
       IN  ck' = [ck EXCEPT
                    !.current_chunk = WithSentence(ck.current_chunk, sentence),
                    !.current_length = ck.current_length + Len(sentence),
                    !.i = ck.i + 1,
                    !.starts = IF ck.current_chunk = <<>> THEN Append(ck.starts, ck.i)
                               ELSE ck.starts]

\* lines 115-124: the last chunk, if it has content; return.
CreateChunksFinish ==
    /\ ck.pc = "loop" /\ ck.i > Len(ck.sentences)
    /\ ck' = [ck EXCEPT
                !.pc = "done",
                !.chunks = IF Strip(ck.current_chunk) # <<>>
                           THEN Append(ck.chunks,
                                       CreateChunkDict(Strip(ck.current_chunk), "d1",
                                                       Filename, ck.chunk_index))
                           ELSE ck.chunks]

(***************************************************************************)
(* The ids of the chunks (document_processor.py, _create_chunk_dict line   *)
(* 154): calls with arbitrary document ids and chunk indices.  The f-string *)
(* renders chunk_index in decimal; the document ids below contain the      *)
(* separator and digits, so that one id can be read as another document's. *)
(***************************************************************************)
MaxChunkIndex == 10   \* chunk_index ranges over 0..MaxChunkIndex
MaxCalls == 2         \* _create_chunk_dict calls that are compared with each other

DocumentIds == {"", "_", "1", "d", "d1", "d_", "d_1", "d_1_0"}

\* One call of _create_chunk_dict; `made` keeps its arguments and the id.
CreateChunkDictCall ==
    /\ Cardinality(made) < MaxCalls
    /\ \E document_id \in DocumentIds, chunk_index \in 0..MaxChunkIndex :
          made' = made \cup
                  {[document_id |-> document_id,
                    chunk_index |-> chunk_index,
                    id |-> CreateChunkDict(<<>>, document_id, Filename, chunk_index).id]}

(***************************************************************************)
(* config.py.  The class body of Config runs once, when the module is      *)
(* imported: every attribute is computed from the environment of that      *)
(* moment (os.getenv with a default).  validate_config reads the class     *)
(* attribute.  The module calls validate_config as its last statement, so  *)
(* an import with an empty key fails and leaves no module behind.          *)
(***************************************************************************)
ParseMax == 1000

EnvValues ==
    [GROQ_API_KEY |-> {"", "gsk"}, CHUNK_SIZE |-> {"1", "2"}, CHUNK_OVERLAP |-> {"0", "1"}]

NoEnviron == [n \in {} |-> ""]

\* os.getenv(name, default)
GetEnv(environ, name, default) ==
    IF name \in DOMAIN environ THEN environ[name] ELSE default

\* int(s) for the decimal strings of the model
ParseInt(s) == CHOOSE n \in 0..ParseMax : ToString(n) = s

\* lines 4-36: the class attributes (those the model follows)
ClassAttributes(environ) ==
    [GROQ_API_KEY  |-> GetEnv(environ, "GROQ_API_KEY", ""),
     CHUNK_SIZE    |-> ParseInt(GetEnv(environ, "CHUNK_SIZE", "1000")),
     CHUNK_OVERLAP |-> ParseInt(GetEnv(environ, "CHUNK_OVERLAP", "200"))]

NoAttributes == [GROQ_API_KEY |-> "", CHUNK_SIZE |-> 0, CHUNK_OVERLAP |-> 0]
NoCall == [by |-> "none", status |-> "none", key_in_environ |-> FALSE]

NoConfig ==
    [environ |-> NoEnviron, imported |-> FALSE, attrs |-> NoAttributes, call |-> NoCall]

\* lines 41-48: `if not cls.GROQ_API_KEY: raise ValueError`, else True
ValidateOutcome(attrs, environ) ==
    IF attrs.GROQ_API_KEY = "" THEN "raised" ELSE "returned"

CallOf(by, attrs, environ) ==
    [by |-> by, status |-> ValidateOutcome(attrs, environ),
     key_in_environ |-> "GROQ_API_KEY" \in DOMAIN environ]

\* os.environ[name] = value
SetEnv ==
    \E name \in DOMAIN EnvValues : \E value \in EnvValues[name] :
        /\ GetEnv(cfg.environ, name, "<unset>") # value
        /\ cfg' = [cfg EXCEPT
                     !.environ = [n \in (DOMAIN cfg.environ) \cup {name} |->
                                     IF n = name THEN value ELSE cfg.environ[n]]]

\* del os.environ[name]
DelEnv ==
    \E name \in DOMAIN cfg.environ :
        cfg' = [cfg EXCEPT
                  !.environ = [n \in (DOMAIN cfg.environ) \ {name} |-> cfg.environ[n]]]

\* `import config`, first time (or after a failed import): lines 1-51.
ConfigImport ==
    /\ ~cfg.imported
    /\ LET attrs == ClassAttributes(cfg.environ)
           call == CallOf("import", attrs, cfg.environ)
       IN  cfg' = [cfg EXCEPT
                     !.call = call,
                     !.imported = (call.status = "returned"),
                     !.attrs = IF call.status = "returned" THEN attrs ELSE NoAttributes]

\* Config.validate_config() called by a client of the imported module.
ValidateConfig ==
    /\ cfg.imported
    /\ cfg' = [cfg EXCEPT !.call = CallOf("validate_config", cfg.attrs, cfg.environ)]

StoreInit ==
    /\ embeddings = <<>>
    /\ metadata = <<>>
    /\ files = [emb |-> Missing, meta |-> Missing]
    /\ ret = Ret("init", "", "ok")
    /\ faults = 0
    /\ flushed = [embeddings |-> <<>>, metadata |-> <<>>]
    /\ deleted = {}

Init ==
    /\ StoreInit /\ ck = NoChunking /\ hs = NoRequests /\ running = 0
    /\ made = {} /\ cfg = NoConfig /\ db = {}

Add ==
    \E d \in DocIds, encode \in EncodeModes, mode \in SaveModes :
        \E chunks \in ChunkLists(d) : AddDocuments(d, chunks, encode, mode)
Delete == \E d \in DocIds, mode \in SaveModes : DeleteDocument(d, mode)
Query == \E q \in Queries, k \in TopKs, encodeOk \in BOOLEAN : Search(q, k, encodeOk)
Chunks == \E d \in DocIds : GetDocumentChunks(d)

Next ==
    \/ Add /\ UNCHANGED <<ck, hs, running, made, cfg, db>>
    \/ Delete /\ UNCHANGED <<ck, hs, running, made, cfg, db>>
    \/ Query /\ UNCHANGED <<ck, hs, running, made, cfg, db>>
    \/ GetStats /\ UNCHANGED <<ck, hs, running, made, cfg, db>>
    \/ Chunks /\ UNCHANGED <<ck, hs, running, made, cfg, db>>
    \/ Construct /\ UNCHANGED <<ck, hs, running, made, cfg, db>>

Spec == Init /\ [][Next]_vars

\* The store driven by add_documents and delete_document only, from empty.
NextMutations ==
    \/ Add /\ UNCHANGED <<ck, hs, running, made, cfg, db>>
    \/ Delete /\ UNCHANGED <<ck, hs, running, made, cfg, db>>

SpecMutations == Init /\ [][NextMutations]_vars

\* The document processor alone: one process_document call per behaviour, for
\* every text and configuration of the model; the store is not touched.
StoreVars == <<embeddings, metadata, files, ret, faults, flushed, deleted, hs, running>>

InitChunker ==
    /\ StoreInit /\ ck \in ChunkerCalls /\ hs = NoRequests /\ running = 0
    /\ made = {} /\ cfg = NoConfig /\ db = {}

NextChunker ==
    \/ ProcessReject /\ UNCHANGED <<StoreVars, made, cfg, db>>
    \/ CreateChunksStart /\ UNCHANGED <<StoreVars, made, cfg, db>>
    \/ CreateChunksClose /\ UNCHANGED <<StoreVars, made, cfg, db>>
    \/ CreateChunksAppend /\ UNCHANGED <<StoreVars, made, cfg, db>>
    \/ CreateChunksFinish /\ UNCHANGED <<StoreVars, made, cfg, db>>

SpecChunker == InitChunker /\ [][NextChunker]_vars

\* The server process from its start on an empty data directory, serving up
\* to MaxRequests requests.
SpecConc == Init /\ [][NextConc]_vars

\* The chunk ids: calls of _create_chunk_dict.
NextIds ==
    CreateChunkDictCall
        /\ UNCHANGED <<embeddings, metadata, files, ret, faults, flushed, deleted,
                       ck, hs, running, cfg, db>>

SpecIds == Init /\ [][NextIds]_vars

\* The configuration module and its environment.
NextConfig ==
    \/ SetEnv /\ UNCHANGED <<StoreVars, ck, made, db>>
    \/ DelEnv /\ UNCHANGED <<StoreVars, ck, made, db>>
    \/ ConfigImport /\ UNCHANGED <<StoreVars, ck, made, db>>
    \/ ValidateConfig /\ UNCHANGED <<StoreVars, ck, made, db>>

SpecConfig == Init /\ [][NextConfig]_vars

\* The store from empty, with crashes inside the flush and restarts; apart
\* from the crashes nothing fails.
NextCrash ==
    \/ AddClean /\ UNCHANGED <<ck, hs, running, made, cfg, db>>
    \/ DeleteClean /\ UNCHANGED <<ck, hs, running, made, cfg, db>>
    \/ CrashInAdd /\ UNCHANGED <<ck, hs, running, made, cfg, db>>
    \/ CrashInDelete /\ UNCHANGED <<ck, hs, running, made, cfg, db>>
    \/ Construct /\ UNCHANGED <<ck, hs, running, made, cfg, db>>

SpecCrash == Init /\ [][NextCrash]_vars

(***************************************************************************)
(* Properties.                                                             *)
(***************************************************************************)
IsMutation(r) == r.op \in {"add_documents", "delete_document"}

\* C1: in every state reached from the empty store by add_documents and
\* delete_document calls, embeddings and metadata have the same length and
\* every metadata entry's embedding_index is its position.
C1_LockStep ==
    /\ Len(embeddings) = Len(metadata)
    /\ \A i \in 1..Len(metadata) : metadata[i].embedding_index = i - 1

\* C2: after an add_documents or delete_document call that returned without
\* error, a store constructed from the persisted artifacts holds the same
\* vectors and the same metadata entries, in the same order, as the store in
\* memory.
C2_ReloadGivesMemory ==
    (IsMutation(ret) /\ ret.status = "ok") =>
        LoadExistingData(files) = [embeddings |-> embeddings, metadata |-> metadata]

\* The two artifacts describe one record sequence: nothing persisted at all,
\* or two readable files of the same length whose i-th vector is the vector of
\* the i-th metadata entry.
ArtifactsAgree(fs) ==
    \/ fs.emb.kind = "missing" /\ fs.meta.kind = "missing"
    \/ /\ fs.emb.kind = "pickle" /\ fs.meta.kind = "json"
       /\ LET embs == PickleLoad(fs.emb)
              md == JsonLoad(fs.meta)
          IN  /\ Len(embs) = Len(md)
              /\ \A i \in 1..Len(md) :
                    /\ md[i].embedding_index = i - 1
                    /\ embs[i] = Encode(md[i].content)

\* C3: no torn write: once an add_documents or delete_document call is over
\* (returned or raised, a failed file write included), the persisted vector
\* array and the persisted metadata array describe the same record sequence.
C3_NoTornWrite == IsMutation(ret) => ArtifactsAgree(files)

\* C4: when the flush fails in add_documents or delete_document, the call
\* raises and the store in memory equals the store as of the last successful
\* flush.
C4_FlushFailureRollsBack ==
    ret.flush_failed =>
        /\ ret.status = "raised"
        /\ [embeddings |-> embeddings, metadata |-> metadata] = flushed

\* C5: a store constructed while either artifact is missing or unreadable
\* starts with both embeddings and metadata empty.
C5_LoadAllOrNothing ==
    (ret.op = "init" /\ (files.emb.kind # "pickle" \/ files.meta.kind # "json")) =>
        (embeddings = <<>> /\ metadata = <<>>)

\* C6: search returns at most top_k results (none for a negative top_k) and
\* every returned score is >= the similarity threshold.  Stated for the runs
\* in which no failure was injected.
C6_SearchBounded ==
    (ret.op = "search" /\ faults = 0) =>
        /\ Len(ret.results) <= Max(ret.top_k, 0)
        /\ \A i \in 1..Len(ret.results) : ScoreGeq(ret.results[i].score, Threshold)

\* The ranking of the stored records (positions 0..n-1) by similarity to the
\* query, descending, equal scores by position.
StoredRecords(embs, md) == 0..(Min(Len(embs), Len(md)) - 1)
ScoreAt(embs, query, i) == CosineSimilarity(Encode(query), embs[i + 1])
RankedBefore(embs, query, i, j) ==
    \/ ScoreGt(ScoreAt(embs, query, i), ScoreAt(embs, query, j))
    \/ ScoreEq(ScoreAt(embs, query, i), ScoreAt(embs, query, j)) /\ i < j
Ranking(embs, md, query) ==
    [p \in 1..Cardinality(StoredRecords(embs, md)) |->
        CHOOSE i \in StoredRecords(embs, md) :
            Cardinality({j \in StoredRecords(embs, md) :
                            RankedBefore(embs, query, j, i)}) = p - 1]
TruncateThenFilter(embs, md, query, top_k) ==
    LET ranked == Ranking(embs, md, query)
        kept == SubSeq(ranked, 1, Min(Max(top_k, 0), Len(ranked)))
        passing == SelectSeq(kept, LAMBDA i : ScoreGeq(ScoreAt(embs, query, i), Threshold))
    IN  [p \in 1..Len(passing) |->
            WithScore(md[passing[p] + 1], ScoreAt(embs, query, passing[p]))]

\* C7: the result of search is the ranking of all stored records by
\* similarity descending, cut to its first top_k entries, and then stripped of
\* the entries below the threshold.  Stated for the runs in which no failure
\* was injected.
C7_TruncateThenFilter ==
    (ret.op = "search" /\ faults = 0) =>
        ret.results = TruncateThenFilter(embeddings, metadata, ret.query, ret.top_k)

\* The position sequences that explain a result list: result p is the
\* metadata entry at position pos[p] with the similarity of the vector there.
RECURSIVE PositionLists(_, _)
PositionLists(n, len) ==
    IF len = 0 THEN {<<>>}
    ELSE {Append(l, i) : l \in PositionLists(n, len - 1), i \in 0..(n - 1)}
Explains(pos, results, embs, md, query) ==
    \A p \in 1..Len(results) :
        /\ pos[p] < Len(md)
        /\ results[p] = WithScore(md[pos[p] + 1], ScoreAt(embs, query, pos[p]))

\* C8: the results of search are in non-increasing score order, and results
\* of equal score appear in insertion order (lower position first).
C8_RankedStable ==
    ret.op = "search" =>
        \E pos \in PositionLists(Len(embeddings), Len(ret.results)) :
            /\ Explains(pos, ret.results, embeddings, metadata, ret.query)
            /\ \A p, q \in 1..Len(pos) :
                  p < q =>
                     \/ ScoreGt(ret.results[p].score, ret.results[q].score)
                     \/ /\ ScoreEq(ret.results[p].score, ret.results[q].score)
                        /\ pos[p] < pos[q]

\* Witness of C8: a search returned two different records of equal score.
C8_Witness ==
    /\ ret.op = "search"
    /\ Len(ret.results) >= 2
    /\ ScoreEq(ret.results[1].score, ret.results[2].score)
    /\ ret.results[1].embedding_index < ret.results[2].embedding_index

CountOf(md, d) == Cardinality({i \in 1..Len(md) : md[i].document_id = d})

\* C9: after delete_document(d) has returned, get_stats reports a record
\* count that is lower by exactly the number of records d had before the call,
\* no metadata entry has document_id d, and no later search returns a result
\* of d unless d was added again.
C9_DeleteEffect ==
    /\ [][(ret'.op = "delete_document" /\ ret'.status = "ok") =>
            /\ StatsOf(metadata').total_chunks =
                  StatsOf(metadata).total_chunks - CountOf(metadata, ret'.doc)
            /\ CountOf(metadata', ret'.doc) = 0]_vars
    /\ [](ret.op = "search" =>
            \A p \in 1..Len(ret.results) : ret.results[p].document_id \notin deleted)

\* The (vector, metadata entry) pairs of the store, by position; an entry is
\* taken without its embedding_index, which delete_document rewrites.
Pairs(embs, md) ==
    [i \in 1..Min(Len(embs), Len(md)) |-> <<embs[i], Without(md[i], "embedding_index")>>]

\* C10: delete_document(d) leaves exactly the former (vector, metadata) pairs
\* whose document_id is not d, in their former order, each vector with the
\* metadata entry it had before the call.
C10_DeleteKeepsOthers ==
    [][ret'.op = "delete_document" =>
          Pairs(embeddings', metadata') =
              SelectSeq(Pairs(embeddings, metadata),
                        LAMBDA pr : pr[2].document_id # ret'.doc)]_vars

\* C11: delete_document(d) when no record has document_id d raises no error
\* and leaves the in-memory embeddings, the in-memory metadata and both
\* persisted artifacts unchanged.
C11_DeleteAbsentNoOp ==
    [][(ret'.op = "delete_document" /\ CountOf(metadata, ret'.doc) = 0) =>
          /\ ret'.status = "ok"
          /\ UNCHANGED <<embeddings, metadata, files>>]_vars

\* Witness of C11: delete_document returned normally on a store that holds
\* records and whose metadata artifact is not what a flush of the memory
\* would have written; a delete that removes records and returns normally has
\* just flushed, so this one found nothing to remove.
C11_Witness ==
    /\ ret.op = "delete_document"
    /\ ret.status = "ok"
    /\ Len(metadata) > 0
    /\ CountOf(metadata, ret.doc) = 0
    /\ files.meta # JsonDump(metadata)

\* The (vector, metadata entry) pairs that add_documents(document_id, chunks)
\* is to append, entries without their embedding_index.
NewPairs(document_id, chunks) ==
    [i \in 1..Len(chunks) |->
        <<Encode(chunks[i].content),
          Without(MetadataEntry(document_id, chunks[i], 0), "embedding_index")>>]

\* C12: a successful add_documents with n segments increases the record
\* count by exactly n, leaves the records stored before unchanged and in
\* place, and appends the new records in input order, the i-th new vector
\* paired with the i-th segment's metadata (nothing is deduplicated).
C12_AddAppends ==
    [][(ret'.op = "add_documents" /\ ret'.status = "ok") =>
          LET n == Len(ret'.chunks)
          IN  /\ Len(embeddings') = Len(embeddings) + n
              /\ Len(metadata') = Len(metadata) + n
              /\ SubSeq(embeddings', 1, Len(embeddings)) = embeddings
              /\ SubSeq(metadata', 1, Len(metadata)) = metadata
              /\ Pairs(embeddings', metadata') =
                    Pairs(embeddings, metadata) \o NewPairs(ret'.doc, ret'.chunks)]_vars

\* C13: add_documents fails, before any mutation of the store, whenever the
\* number of vectors obtained for the segments differs from the number of
\* segments.
C13_LengthMismatchRejected ==
    [][(/\ ret'.op = "add_documents"
        /\ ret'.encode_called /\ ~ret'.encode_failed
        /\ ret'.vectors # Len(ret'.chunks)) =>
          /\ ret'.status = "raised"
          /\ UNCHANGED <<embeddings, metadata, files>>]_vars

\* C14: if add_documents fails before the flush (the embedding function
\* raises, or a segment record is malformed), the in-memory embeddings and
\* metadata are exactly what they were before the call.
C14_FailedAddLeavesMemory ==
    [][(ret'.op = "add_documents" /\ ret'.status = "raised" /\ ~ret'.flush_failed) =>
          UNCHANGED <<embeddings, metadata>>]_vars

\* C15: a failure of the embedding function propagates to the caller as an
\* error, in add_documents and in search alike; no normal result is returned.
C15_EncoderFailurePropagates ==
    (ret.op \in {"add_documents", "search"} /\ ret.encode_failed) =>
        ret.status = "raised"

\* C16: search, get_stats and get_document_chunks leave the in-memory
\* embeddings, the in-memory metadata (every field of every stored entry;
\* 'score' goes to the returned copy only) and both artifacts unchanged.
C16_ReadsWriteNothing ==
    [][ret'.op \in {"search", "get_stats", "get_document_chunks"} =>
          UNCHANGED <<embeddings, metadata, files>>]_vars

\* Witness of C16: a search returned a scored result, and the stored entry it
\* was copied from has no 'score'.
C16_Witness ==
    /\ ret.op = "search"
    /\ Len(ret.results) >= 1
    /\ "score" \in DOMAIN ret.results[1]
    /\ "score" \notin DOMAIN metadata[ret.results[1].embedding_index + 1]

\* C18: get_stats returns total_chunks equal to the number of stored records
\* (metadata entries) and total_documents equal to the number of distinct
\* document_id values among them, both 0 for an empty store, and never raises.
C18_StatsCounts ==
    ret.op = "get_stats" =>
        /\ ret.status = "ok"
        /\ ret.stats.total_chunks = Len(metadata)
        /\ ret.stats.total_documents =
              Cardinality({d \in DocIds : CountOf(metadata, d) > 0})
        /\ Len(metadata) = 0 =>
              (ret.stats.total_chunks = 0 /\ ret.stats.total_documents = 0)

\* Witness of C18: get_stats answered for a store with more records than
\* documents and more than one document.
C18_Witness ==
    /\ ret.op = "get_stats"
    /\ ret.stats.total_documents = 2
    /\ ret.stats.total_chunks = 3

\* C19: search on a store with zero records (get_stats counts none) returns
\* an empty sequence for every query and every top_k, without invoking the
\* embedding function.
C19_EmptyStoreSearch ==
    (ret.op = "search" /\ StatsOf(metadata).total_chunks = 0) =>
        /\ ret.results = <<>>
        /\ ~ret.encode_called

\* C20: for every input text that is non-empty after _clean_text,
\* _create_chunks returns at least one segment, and every returned segment
\* has non-empty content.
C20_AtLeastOneChunk ==
    (ck.pc = "done" /\ CleanText(ck.raw) # <<>>) =>
        /\ Len(ck.chunks) >= 1
        /\ \A j \in 1..Len(ck.chunks) : ck.chunks[j].content # <<>>

\* A store in which no mutation is partly applied.
Aligned(embs, md) ==
    /\ Len(embs) = Len(md)
    /\ \A i \in 1..Len(md) : md[i].embedding_index = i - 1

\* Request r is inside the mutate-then-flush sequence of add_documents or
\* delete_document.
InMutation(r) ==
    hs[r].pc \in {"add_emb", "add_meta", "add_save",
                  "del_emb", "del_meta", "del_reindex", "del_save"}

\* C17: under any interleaving of concurrent upload, delete and query
\* requests, add_documents and delete_document execute their
\* mutate-then-flush sequence one at a time, and no search or get_stats runs
\* against a store in which a mutation is partly applied.
C17_MutationsSerialized ==
    /\ [](Cardinality({r \in Reqs : InMutation(r)}) <= 1)
    /\ [][(\E r \in Reqs : hs[r].pc \in {"search", "stats"} /\ hs'[r].pc # hs[r].pc) =>
            /\ Aligned(embeddings, metadata)
            /\ \A q \in Reqs : ~InMutation(q)]_vars

\* Witness of C17: a search has returned results to a query request while an
\* upload request, its add_documents done, is still in flight.
C17_Witness ==
    \E r, q \in Reqs :
        /\ hs[r].kind = "query" /\ hs[r].pc = "llm"
        /\ hs[q].kind = "upload" /\ hs[q].pc = "db"

\* " " + s1 + " " + s2 + ... : what the loop of _create_chunks adds to a chunk
\* for a run of sentences.
RECURSIVE Joined(_)
Joined(ss) == IF ss = <<>> THEN <<>> ELSE <<" ">> \o Head(ss) \o Joined(Tail(ss))

\* The sentences that chunk j (1-based) received in the loop, and the overlap
\* text it was seeded with.
OwnSentences(c, j) ==
    SubSeq(c.sentences, c.starts[j],
           IF j < Len(c.starts) THEN c.starts[j + 1] - 1 ELSE Len(c.sentences))
SeedOf(c, j) == IF j = 1 THEN <<>> ELSE c.seeds[j - 1].overlap_text

\* C21: every sentence of the split text appears whole in the segments (also
\* one longer than chunk_size), and the segments' contents without their
\* overlap prefix, taken in chunk_index order, are the sentence sequence in
\* its order, no sentence lost or repeated.
C21_SentencesPreserved ==
    ck.pc = "done" =>
        LET n == Len(ck.chunks)
        IN  /\ Len(ck.starts) = n
            /\ n = 0 => ck.sentences = <<>>
            /\ n > 0 => ck.starts[1] = 1
            /\ \A j \in 1..n :
                  /\ Len(OwnSentences(ck, j)) >= 1
                  /\ ck.chunks[j].content =
                        Strip(SeedOf(ck, j) \o Joined(OwnSentences(ck, j)))

\* Witness of C21: chunking ended with two segments or more, the second
\* seeded with overlap text, for a text with a sentence longer than chunk_size.
C21_Witness ==
    /\ ck.pc = "done"
    /\ Len(ck.chunks) >= 2
    /\ ck.seeds[1].overlap_text # <<>>
    /\ \E i \in 1..Len(ck.sentences) : Len(ck.sentences[i]) > ck.chunk_size

LongestSentence(ss) ==
    IF ss = <<>> THEN 0
    ELSE CHOOSE l \in {Len(ss[i]) : i \in 1..Len(ss)} :
            \A i \in 1..Len(ss) : Len(ss[i]) <= l

\* C22: every emitted segment's character count is at most chunk_size plus
\* the length of the longest sentence it contains (here: of the longest
\* sentence of the text, which is no shorter).
C22_SegmentLengthBound ==
    \A j \in 1..Len(ck.chunks) :
        ck.chunks[j].length <= ck.chunk_size + LongestSentence(ck.sentences)

\* C23: the overlap text that seeds a new segment is the trailing
\* chunk_overlap characters of the segment just closed (all of it only when
\* it is shorter), so it is never longer than chunk_overlap characters.
C23_OverlapBounded ==
    \A k \in 1..Len(ck.seeds) :
        LET closed == ck.seeds[k].closed
            overlap_text == ck.seeds[k].overlap_text
        IN  /\ Len(overlap_text) = Min(Len(closed), ck.chunk_overlap)
            /\ overlap_text =
                  SubSeq(closed, Len(closed) - Len(overlap_text) + 1, Len(closed))

\* C24: the segments returned by _create_chunks carry chunk_index 0, 1, ...,
\* n-1 in emission order, with no gap and no repeat.
C24_ChunkIndexSequence ==
    \A j \in 1..Len(ck.chunks) : ck.chunks[j].chunk_index = j - 1

\* Witness of C24: _create_chunks returned three segments.
C24_Witness ==
    /\ ck.pc = "done"
    /\ Len(ck.chunks) >= 3

\* C29: at every iteration of the loop of _create_chunks the counter
\* current_length is the character length of the running segment (with or
\* without its surrounding blanks), so that the segment is closed exactly
\* when it is non-empty and its length plus the sentence's exceeds chunk_size.
C29_CounterIsLength ==
    (ck.pc = "loop" /\ ck.i <= Len(ck.sentences)) =>
        \/ ck.current_length = Len(ck.current_chunk)
        \/ ck.current_length = Len(Strip(ck.current_chunk))

HasMarker(s) == \E i \in 1..Len(s) : MarkerMatch(s, i) > 0
HasWhitespaceRun(s) == \E i \in 1..(Len(s) - 1) : IsSpace(s[i]) /\ IsSpace(s[i + 1])

\* C30: the output of _clean_text contains no run of two or more whitespace
\* characters and no page marker, and _clean_text applied to it gives it back.
C30_CleanTextIdempotent ==
    ck.pc \in {"loop", "done"} =>
        /\ ~HasWhitespaceRun(ck.text)
        /\ ~HasMarker(ck.text)
        /\ CleanText(ck.text) = ck.text

(***************************************************************************)
(* C25.  The segment id document_id + "_" + chunk_index is injective: two  *)
(* distinct (document_id, chunk_index) pairs never get the same id, for    *)
(* any document_id string and any non-negative chunk_index.                *)
(***************************************************************************)
C25_SegmentIdInjective ==
    \A a \in made : \A b \in made :
        a.id = b.id => (a.document_id = b.document_id /\ a.chunk_index = b.chunk_index)

\* Two calls whose ids are close: "d_1" with index 0 gives "d_1_0", "d" with
\* index 10 gives "d_10".
C25_Witness ==
    \E a \in made : \E b \in made :
        /\ a.document_id = "d_1" /\ a.chunk_index = 0 /\ a.id = "d_1_0"
        /\ b.document_id = "d" /\ b.chunk_index = 10 /\ b.id = "d_10"

(***************************************************************************)
(* C28.  Config.validate_config() raises ValueError whenever GROQ_API_KEY  *)
(* is absent from the environment at the time of the call, also when it    *)
(* was present when the module was imported.                               *)
(***************************************************************************)
C28_ValidateReadsEnvironment ==
    (cfg.call.by = "validate_config" /\ ~cfg.call.key_in_environ)
        => cfg.call.status = "raised"

(***************************************************************************)
(* C26.  POST /upload with a file whose name does not end in .pdf, .txt,   *)
(* .docx or .md is answered with status 400 and a detail containing        *)
(* 'Unsupported file type': the validation error raised inside the handler *)
(* reaches the client as raised.                                           *)
(***************************************************************************)
UnsupportedUpload(rec) ==
    /\ rec.kind = "upload" /\ rec.pc \in {"error", "done"}
    /\ rec.filename # <<>> /\ rec.size \in 1..MaxUploadSize
    /\ ~\E ext \in AllowedTypes : EndsWith(LowerStr(rec.filename), ext)

C26_UnsupportedTypeIs400 ==
    \A r \in Reqs :
        UnsupportedUpload(hs[r]) =>
            /\ hs[r].resp.status = 400
            /\ hs[r].resp.detail \in
                   ({UnsupportedDetail} \cup StrOf(HTTPException(400, UnsupportedDetail)))

(***************************************************************************)
(* C27.  POST /query, whenever the search of the vector store returns no   *)
(* results, responds with status 200, the fixed answer that no relevant    *)
(* information was found and an empty list of sources, and does not call   *)
(* the LLM service.                                                        *)
(***************************************************************************)
C27_NoResultsNoLlm ==
    \A r \in Reqs :
        (hs[r].kind = "query" /\ hs[r].pc \in {"llm", "done"}
                              /\ hs[r].relevant_chunks = <<>>) =>
            /\ hs[r].pc = "done"
            /\ hs[r].resp = Ok(NoInformationAnswer, <<>>)
            /\ ~hs[r].llm_called

\* A query answered without results although the store holds records.
C27_Witness ==
    \E r \in Reqs :
        /\ hs[r].kind = "query" /\ hs[r].pc = "done"
        /\ hs[r].relevant_chunks = <<>>
        /\ hs[r].resp.answer = NoInformationAnswer
        /\ Len(metadata) > 0

(***************************************************************************)
(* C31.  Crash recovery: when the process stops at any point of a flush    *)
(* (before, between or after the two file writes) and a new VectorStore is *)
(* constructed from the disk, the loaded store has as many vectors as      *)
(* metadata entries and every entry's embedding_index is its position; and *)
(* this still holds after any further add_documents or delete_document.    *)
(* Under SpecCrash nothing fails but the crashes, and the store starts     *)
(* empty, so every state of a live store is covered.                       *)
(***************************************************************************)
C31_CrashRecovery ==
    Alive =>
        /\ Len(embeddings) = Len(metadata)
        /\ \A i \in 1..Len(metadata) : metadata[i].embedding_index = i - 1

(***************************************************************************)
(* C32.  After every request has completed, the vector store and the       *)
(* metadata database hold the same set of documents; an upload that was    *)
(* answered with an error has left no record of its document in the vector *)
(* store; a delete that was answered with an error has left the document   *)
(* in the vector store and in the database.  Documents are compared as far *)
(* as they have chunks (a row with chunks = 0 has no record to match), and *)
(* a delete is held to "still present" when the document was present in    *)
(* both when the request arrived.                                          *)
(***************************************************************************)
AllCompleted ==
    /\ running = 0
    /\ \A r \in Reqs : hs[r].pc \in {"new", "done", "error"}

C32_StoreMatchesDatabase ==
    AllCompleted =>
        /\ StoreDocuments = {row.id : row \in {x \in db : x.chunks > 0}}
        /\ \A r \in Reqs :
              (hs[r].kind = "upload" /\ hs[r].pc = "error") =>
                  hs[r].doc \notin StoreDocuments
        /\ \A r \in Reqs :
              (hs[r].kind = "delete" /\ hs[r].pc = "error" /\ hs[r].present) =>
                  (hs[r].doc \in StoreDocuments /\ hs[r].doc \in DbDocuments)

====
